---------------------------- MODULE Spec2Model ----------------------------
(***************************************************************************)
(* Model of src/proof/pdr/pdrContract.c: the program renderer              *)
(* (Pdr_ManLogUnsafeProgram), the program extractor (Pdr_ManOblToProgram)  *)
(* and the register / primary-input mapping queries of the PDR manager.    *)
(*                                                                         *)
(* Vectors (Vec_Int_t) and literal arrays are sequences; entry i of the C  *)
(* array is element i+1 of the sequence.  A proof-obligation chain is the  *)
(* sequence of its nodes, node k's pNext being node k+1; a node pointer is *)
(* the node's position in the chain and NULL is position 0.                *)
(***************************************************************************)
EXTENDS Integers, Sequences, FiniteSets

VARIABLES p,      \* the manager Pdr_Man_t: tables, scratch vector, start frame
          chain,  \* the obligation chain the search engine has produced so far
          call,   \* the last call made: function, arguments, manager on entry
          ret     \* what that call returned, printed or how it ended

vars == <<p, chain, call, ret>>

-----------------------------------------------------------------------------
(* Bounds of the model *)

\* longest obligation chain the engine builds
MaxFrames == 3
\* most literals (state and input segments together) in a whole chain
MaxLits == 2

-----------------------------------------------------------------------------
(* Literal primitives and vectors *)

Abc_Var2Lit(Var, c) == 2 * Var + c
Abc_Lit2Var(Lit) == Lit \div 2
Abc_LitIsCompl(Lit) == Lit % 2 = 1

\* the variable id the extractor treats as the reset input
RstVar == 1

Vec_IntSize(v) == Len(v)
Vec_IntEntry(v, i) == v[i + 1]
Vec_IntInRange(v, i) == i >= 0 /\ i < Vec_IntSize(v)
Vec_IntPush(v, e) == Append(v, e)
Vec_IntClear(v) == << >>

\* the C remainder, which truncates towards zero (b > 0)
CRem(a, b) == IF a >= 0 THEN a % b ELSE -((-a) % b)
\* the C quotient, which truncates towards zero (b > 0)
CDiv(a, b) == IF a >= 0 THEN a \div b ELSE -((-a) \div b)

Saig_ManPiNum(man) == man.nPis

-----------------------------------------------------------------------------
(* Assignment sets (Pdr_Set_t) and chain nodes (Pdr_Obl_t) *)

MkSet(st, pi) == [nLits |-> Len(st), nTotal |-> Len(st) + Len(pi), Lits |-> st \o pi]

\* Pdr_SetCreate(vLits, vPiLits): the state literals, then the input literals
Pdr_SetCreate(vLits, vPiLits) == MkSet(vLits, vPiLits)

\* the literals the loops  for ( i = nLits; i < nTotal; i++ )  visit, in order
InputLits(pState) == SubSeq(pState.Lits, pState.nLits + 1, pState.nTotal)


-----------------------------------------------------------------------------
(* The manager, as the engine constructs it before any call of this file *)

Man(instLen, nInsts, nPis, vPIs2Imem, vReg2Inst, vReg2PI, vReg2Copy) ==
    [instLen |-> instLen, nInsts |-> nInsts, nPis |-> nPis,
     vPIs2Imem |-> vPIs2Imem, vReg2Inst |-> vReg2Inst,
     vReg2PI |-> vReg2PI, vReg2Copy |-> vReg2Copy,
     vPis |-> << >>, vDummy |-> << >>, nStartFrame |-> 0, nBlockedP |-> 0]

\* the externally built, immutable part of the manager
Tables(man) == <<man.instLen, man.nInsts, man.nPis, man.vPIs2Imem,
                 man.vReg2Inst, man.vReg2PI, man.vReg2Copy, man.vDummy>>

NoCall == [fn |-> "none", arg |-> << >>, entry |-> << >>]
NoRet == [status |-> "none", res |-> << >>]

\* an assertion failure, a crash: the process is gone and makes no more calls
Alive == ret.status \notin {"assert", "segv", "crash"}

-----------------------------------------------------------------------------
(* Pdr_ManOblToProgram *)

NULL == 0
HeadPtr(ch) == IF Len(ch) > 0 THEN 1 ELSE NULL
NextPtr(ch, pObl) == IF pObl < Len(ch) THEN pObl + 1 ELSE NULL

\* lines 109-120: does the scan of the input segment reach a true reset literal
AssertsRst(pState) ==
    \E i \in 1..Len(InputLits(pState)) :
        LET Lit == InputLits(pState)[i]
            piId == Abc_Lit2Var(Lit)
        IN piId = RstVar /\ ~Abc_LitIsCompl(Lit)

\* lines 106-122, one iteration of the outer loop on the node pObl
ResolveStep_firstWins(ch, pObl, st) ==
    LET hit == AssertsRst(ch[pObl].pState) /\ st.fLatestRst = 0 IN
    [fLatestRst  |-> IF hit THEN st.nFrame ELSE st.fLatestRst,
     pOblProgram |-> IF hit THEN pObl ELSE st.pOblProgram,
     nFrame      |-> st.nFrame + 1,
     trace       |-> Append(st.trace, IF hit THEN <<st.nFrame, pObl>>
                                      ELSE <<st.fLatestRst, st.pOblProgram>>)]
ResolveStep_indexOnly(ch, pObl, st) ==
    LET hit == AssertsRst(ch[pObl].pState) IN
    [fLatestRst  |-> IF hit THEN st.nFrame ELSE st.fLatestRst,
     pOblProgram |-> st.pOblProgram,
     nFrame      |-> st.nFrame + 1,
     trace       |-> Append(st.trace, <<IF hit THEN st.nFrame ELSE st.fLatestRst,
                                        st.pOblProgram>>)]
ResolveStep(ch, pObl, st) ==
    LET hit == AssertsRst(ch[pObl].pState) IN
    [fLatestRst  |-> IF hit THEN st.nFrame ELSE st.fLatestRst,
     pOblProgram |-> IF hit THEN pObl ELSE st.pOblProgram,
     nFrame      |-> st.nFrame + 1,
     trace       |-> Append(st.trace, IF hit THEN <<st.nFrame, pObl>>
                                      ELSE <<st.fLatestRst, st.pOblProgram>>)]

\* lines 106-122:  for ( ; pObl; pObl = pObl->pNext )
RECURSIVE ResolveLoop(_, _, _)
ResolveLoop(ch, pObl, st) ==
    IF pObl = NULL THEN st
    ELSE ResolveLoop(ch, NextPtr(ch, pObl), ResolveStep(ch, pObl, st))

\* lines 96-100, 106-122: the locals when the traversal ends
Resolve(ch) ==
    ResolveLoop(ch, HeadPtr(ch),
                [fLatestRst |-> 0, pOblProgram |-> HeadPtr(ch), nFrame |-> 0,
                 trace |-> << >>])

\* lines 101-103: the scratch vector after  Vec_IntClear( p->vPis )
EntryVPis_noClear(man) == man.vPis
EntryVPis(man) == Vec_IntClear(man.vPis)

\* line 135: the assertion on a reset literal
RstAssertFails(Lit) == Abc_Lit2Var(Lit) = RstVar /\ Abc_LitIsCompl(Lit)

\* lines 138-143: is the literal pushed to p->vPis
Keeps_noPiCount(man, Lit) == Vec_IntEntry(man.vPIs2Imem, Abc_Lit2Var(Lit)) >= 0
Keeps(man, Lit) ==
    LET piId == Abc_Lit2Var(Lit)
        imemIdx == Vec_IntEntry(man.vPIs2Imem, piId)
    IN ~(imemIdx < 0) /\ ~(piId >= Saig_ManPiNum(man))

\* lines 128-144: the loop over the resolved frame's input literals
RECURSIVE FilterLoop(_, _, _, _)
FilterLoop(man, lits, i, vPis) ==
    IF i > Len(lits) THEN [status |-> "ok", vPis |-> vPis]
    ELSE IF RstAssertFails(lits[i]) THEN [status |-> "assert", vPis |-> vPis]
    ELSE IF Keeps(man, lits[i])
         THEN FilterLoop(man, lits, i + 1, Vec_IntPush(vPis, lits[i]))
         ELSE FilterLoop(man, lits, i + 1, vPis)

Pdr_ManOblToProgram ==
    /\ Alive
    /\ LET vPis0 == EntryVPis(p)
           r == Resolve(chain)
       IN IF r.pOblProgram = NULL
          THEN \* line 128 reads pOblProgram->pState through a null pointer
               /\ p' = [p EXCEPT !.nStartFrame = r.fLatestRst, !.vPis = vPis0]
               /\ ret' = [status |-> "segv", res |-> << >>]
          ELSE LET f == FilterLoop(p, InputLits(chain[r.pOblProgram].pState), 1, vPis0)
               IN /\ p' = [p EXCEPT !.nStartFrame = r.fLatestRst, !.vPis = f.vPis]
                  /\ ret' = [status |-> f.status,
                             res |-> [pProgram |-> IF f.status = "ok"
                                                   THEN Pdr_SetCreate(p.vDummy, f.vPis)
                                                   ELSE << >>,
                                      nFrame |-> r.nFrame,
                                      pOblProgram |-> r.pOblProgram,
                                      trace |-> r.trace]]
    /\ call' = [fn |-> "Pdr_ManOblToProgram", arg |-> chain,
                entry |-> [vPis |-> p.vPis, nStartFrame |-> p.nStartFrame]]
    /\ UNCHANGED chain

-----------------------------------------------------------------------------
(* The search engine, which hands this file its chains *)

\* the primary-input ids of the model: 0 an instruction-memory input, 1 the
\* reset, 2 an id at or beyond the declared primary-input count
PiVars == {0, 1, 2}
PiLitSet == {Abc_Var2Lit(v, c) : v \in PiVars, c \in {0, 1}}

\* input segments: each variable at most once, in any order
InputSegs(n) ==
    UNION {{s \in [1..k -> PiLitSet] :
               \A i, j \in 1..k : i # j => Abc_Lit2Var(s[i]) # Abc_Lit2Var(s[j])}
           : k \in 0..n}

\* state segments: none, or the latch whose variable id equals the reset's
StateSegs == {<< >>, <<Abc_Var2Lit(RstVar, 0)>>}

\* the assignment sets of at most n literals
Cubes(n) ==
    {c \in {MkSet(st, pi) : st \in StateSegs, pi \in InputSegs(n)} : c.nTotal <= n}

RECURSIVE ChainLits(_)
ChainLits(ch) == IF ch = << >> THEN 0 ELSE Head(ch).pState.nTotal + ChainLits(Tail(ch))

\* the engine links one more obligation to the end of the chain
AddFrame ==
    /\ Alive
    /\ Len(chain) < MaxFrames
    /\ \E c \in Cubes(MaxLits - ChainLits(chain)) :
           chain' = Append(chain, [pState |-> c])
    /\ UNCHANGED <<p, call, ret>>

-----------------------------------------------------------------------------
(* The extractor under the engine's chains *)

\* placement tables over the ids 0..2, two declared primary inputs: the
\* reset mapped or not, the id beyond the count mapped, colliding or not
ManagersObl ==
    {Man(3, 1, 2, <<0, r, s>>, << >>, << >>, << >>) : r \in {-1, 1}, s \in {-1, 0, 2}}

Init ==
    /\ p \in ManagersObl
    /\ chain = << >>
    /\ call = NoCall
    /\ ret = NoRet

Next == AddFrame \/ Pdr_ManOblToProgram

Spec == Init /\ [][Next]_vars

-----------------------------------------------------------------------------
(* Pdr_ManLogUnsafeProgram *)

\* lines 50-56: a buffer of n characters, all ch; position i is element i+1
Memset(ch, n) == [i \in 1..n |-> ch]

\* lines 65, 66:  Abc_LitIsCompl(Lit) ? '0' : '1'
LitChar(Lit) == IF Abc_LitIsCompl(Lit) THEN "0" ELSE "1"

\* lines 60-66, one iteration: both buffers are written at the literal's
\* placement, whatever the placement is; a placement outside the buffers is
\* a write outside the allocations, recorded in oob
WriteLit_concreteOnly(man, st, Lit) ==
    LET piId == Abc_Lit2Var(Lit)
        imemIdx == Vec_IntEntry(man.vPIs2Imem, piId)
    IN IF imemIdx >= 0 /\ imemIdx < Len(st.conc)
       THEN [conc |-> [st.conc EXCEPT ![imemIdx + 1] = LitChar(Lit)],
             gen  |-> st.gen,
             oob  |-> st.oob]
       ELSE [st EXCEPT !.oob = @ \cup {imemIdx}]
WriteLit(man, st, Lit) ==
    LET piId == Abc_Lit2Var(Lit)
        imemIdx == Vec_IntEntry(man.vPIs2Imem, piId)
    IN IF imemIdx >= 0 /\ imemIdx < Len(st.conc)
       THEN [conc |-> [st.conc EXCEPT ![imemIdx + 1] = LitChar(Lit)],
             gen  |-> [st.gen EXCEPT ![imemIdx + 1] = LitChar(Lit)],
             oob  |-> st.oob]
       ELSE [st EXCEPT !.oob = @ \cup {imemIdx}]

\* lines 58-68:  for ( i = pProgram->nLits; i < pProgram->nTotal; i++ )
RECURSIVE WriteLoop(_, _, _, _)
WriteLoop(man, lits, i, st) ==
    IF i > Len(lits) THEN st
    ELSE WriteLoop(man, lits, i + 1, WriteLit(man, st, lits[i]))

\* lines 49-68: the two buffers when the loop ends
Buffers(man, pProgram) ==
    LET totalBits == man.instLen * man.nInsts
    IN WriteLoop(man, InputLits(pProgram), 1,
                 [conc |-> Memset("0", totalBits), gen |-> Memset("x", totalBits),
                  oob |-> {}])

\* lines 71-75, 82-85: the line of instruction i,  for (j = instLen; j > 0; j--)
Row_lsbFirst(man, buf, i) ==
    [c \in 1..man.instLen |-> buf[(i * man.instLen + c - 1) + 1]]
Row(man, buf, i) ==
    [c \in 1..man.instLen |->
        LET j == man.instLen - (c - 1) IN buf[(i * man.instLen + j - 1) + 1]]

\* lines 70-76, 81-86: one line per instruction
Rows(man, buf) == [r \in 1..man.nInsts |-> Row(man, buf, r - 1)]

\* lines 45-86: what the call writes to pFile
Printed(man, b) ==
    [header |-> man.nBlockedP, concrete |-> Rows(man, b.conc),
     generalized |-> Rows(man, b.gen)]

NothingPrinted == [header |-> -1, concrete |-> << >>, generalized |-> << >>]

\* How the call ends.  A write outside the buffers is undefined behaviour:
\* the call may return all the same, the allocator may abort in free() once
\* the report is written, or the write itself may be trapped.
LogOutcomes(man, b) ==
    IF b.oob = {}
    THEN {[status |-> "ok",
           res |-> [val |-> 1, conc |-> b.conc, gen |-> b.gen, oob |-> b.oob,
                    out |-> Printed(man, b)]]}
    ELSE {[status |-> st,
           res |-> [val |-> IF st = "ok" THEN 1 ELSE -1,
                    conc |-> b.conc, gen |-> b.gen, oob |-> b.oob, out |-> o]]
          : st \in {"ok", "crash"}, o \in {Printed(man, b), NothingPrinted}}
         \ {[status |-> "ok",
             res |-> [val |-> 1, conc |-> b.conc, gen |-> b.gen, oob |-> b.oob,
                      out |-> NothingPrinted]]}

Pdr_ManLogUnsafeProgram ==
    /\ Alive
    /\ \E pProgram \in Cubes(MaxLits), pFile \in {NULL, NULL + 1} :
          /\ IF pFile = NULL
             THEN \* line 44
                  ret' = [status |-> "assert", res |-> << >>]
             ELSE ret' \in LogOutcomes(p, Buffers(p, pProgram))
          /\ call' = [fn |-> "Pdr_ManLogUnsafeProgram",
                      arg |-> [pProgram |-> pProgram, pFile |-> pFile],
                      entry |-> [vPis |-> p.vPis, nStartFrame |-> p.nStartFrame]]
    /\ UNCHANGED <<p, chain>>

\* instruction memories of one word of four bits and of two words of two
\* bits; every placement table over the ids 0..2 with entries -1, 1 and 2
ManagersLog ==
    {Man(g[1], g[2], 2, t, << >>, << >>, << >>) :
        g \in {<<4, 1>>, <<2, 2>>}, t \in [1..3 -> {-1, 1, 2}]}

InitLog ==
    /\ p \in ManagersLog
    /\ chain = << >>
    /\ call = NoCall
    /\ ret = NoRet

NextLog == Pdr_ManLogUnsafeProgram

SpecLog == InitLog /\ [][NextLog]_vars

-----------------------------------------------------------------------------
(* The mapping queries *)

Fatal == [status |-> "assert", res |-> << >>]
Returns(v) == [status |-> "ok", res |-> v]

\* the bounds assertion of Vec_IntEntry itself
Vec_IntEntryAsserts(v, i) == ~Vec_IntInRange(v, i)

\* lines 161-164
RegInstId(man, regId) ==
    IF ~(regId >= 0 /\ regId < Vec_IntSize(man.vReg2Inst)) THEN Fatal
    ELSE Returns(Vec_IntEntry(man.vReg2Inst, regId))

\* lines 178-184
PiInstId(man, piId) ==
    IF ~(piId >= 0 /\ piId < Vec_IntSize(man.vPIs2Imem)) THEN Fatal
    ELSE LET imemb == Vec_IntEntry(man.vPIs2Imem, piId)
         IN IF ~(imemb >= 0) THEN Fatal
            ELSE Returns(CDiv(imemb, man.instLen))

\* lines 198-204: no assertion on imemb
RegInstBit(man, regId) ==
    IF ~(regId >= 0 /\ regId < Vec_IntSize(man.vReg2Inst)) THEN Fatal
    ELSE LET pi == Vec_IntEntry(man.vReg2PI, regId)
         IN IF ~(pi >= 0 /\ pi < Vec_IntSize(man.vPIs2Imem)) THEN Fatal
            ELSE LET imemb == Vec_IntEntry(man.vPIs2Imem, pi)
                 IN Returns(CRem(imemb, man.instLen))

\* lines 218-223
PiInstBit(man, piId) ==
    IF ~(piId >= 0 /\ piId < Vec_IntSize(man.vPIs2Imem)) THEN Fatal
    ELSE LET imemb == Vec_IntEntry(man.vPIs2Imem, piId)
         IN IF ~(imemb >= 0) THEN Fatal
            ELSE Returns(CRem(imemb, man.instLen))

\* lines 237-241
IsRegInst(man, regId) ==
    IF ~(regId >= 0 /\ regId < Vec_IntSize(man.vReg2Inst)) THEN Fatal
    ELSE LET instId == Vec_IntEntry(man.vReg2Inst, regId)
         IN Returns(IF instId >= 0 THEN 1 ELSE 0)

\* lines 255-257
RegCopy(man, regId) ==
    IF Vec_IntEntryAsserts(man.vReg2Copy, regId) THEN Fatal
    ELSE Returns(Vec_IntEntry(man.vReg2Copy, regId))

\* the ids callers pass: the ids of the tables and one to either side
QueryIds == -1..3

Query(fn, id, result) ==
    /\ Alive
    /\ ret' = result
    /\ call' = [fn |-> fn, arg |-> id,
                entry |-> [vPis |-> p.vPis, nStartFrame |-> p.nStartFrame]]
    /\ UNCHANGED <<p, chain>>

Pdr_ManRegInstId == \E id \in QueryIds : Query("Pdr_ManRegInstId", id, RegInstId(p, id))
Pdr_ManPiInstId == \E id \in QueryIds : Query("Pdr_ManPiInstId", id, PiInstId(p, id))
Pdr_ManRegInstBit == \E id \in QueryIds : Query("Pdr_ManRegInstBit", id, RegInstBit(p, id))
Pdr_ManPiInstBit == \E id \in QueryIds : Query("Pdr_ManPiInstBit", id, PiInstBit(p, id))
Pdr_ManIsRegInst == \E id \in QueryIds : Query("Pdr_ManIsRegInst", id, IsRegInst(p, id))
Pdr_ManRegCopy == \E id \in QueryIds : Query("Pdr_ManRegCopy", id, RegCopy(p, id))

\* two registers; a register's associated input may be any id, in the
\* placement table or not, and its placement may be unmapped
ManagersQry ==
    {Man(g[1], g[2], 2, t, r[1], r[2], <<0, 1>>) :
        g \in {<<4, 1>>, <<2, 2>>},
        t \in [1..3 -> {-1, 1, 2}],
        r \in {<< <<0, -1>>, <<0, 1>> >>, << <<1, 0>>, <<2, 0>> >>,
               << <<-1, -1>>, <<3, -1>> >>}}

InitQry ==
    /\ p \in ManagersQry
    /\ chain = << >>
    /\ call = NoCall
    /\ ret = NoRet

NextQry ==
    \/ Pdr_ManRegInstId
    \/ Pdr_ManPiInstId
    \/ Pdr_ManRegInstBit
    \/ Pdr_ManPiInstBit
    \/ Pdr_ManIsRegInst
    \/ Pdr_ManRegCopy

SpecQry == InitQry /\ [][NextQry]_vars

-----------------------------------------------------------------------------
(* What the claims speak of, stated without the extractor's own loops *)

IsObl == call.fn = "Pdr_ManOblToProgram"
OblOk == IsObl /\ ret.status = "ok"

\* the input segment [nLits, nTotal) of frame k (frames counted from 0)
SegOf(ch, k) ==
    LET s == ch[k + 1].pState
    IN [i \in 1..(s.nTotal - s.nLits) |-> s.Lits[s.nLits + i]]

\* the frames whose input segment holds the reset with true polarity
RstFrames(ch) ==
    {k \in 0..(Len(ch) - 1) : \E i \in DOMAIN SegOf(ch, k) : SegOf(ch, k)[i] = 2 * RstVar}

LatestRst(ch) ==
    IF RstFrames(ch) = {} THEN 0
    ELSE CHOOSE k \in RstFrames(ch) : \A j \in RstFrames(ch) : j <= k

\* a literal with a valid placement and a declared primary-input id
Qualifies(man, l) == man.vPIs2Imem[(l \div 2) + 1] >= 0 /\ (l \div 2) < man.nPis

Kept(man, seg) == SelectSeq(seg, LAMBDA l : Qualifies(man, l))

\* C1: on a non-empty chain every frame is visited and the start frame is
\* the last frame whose input segment holds the reset with true polarity,
\* frame 0 when no frame does.
C1_LatestResetWins ==
    (IsObl /\ Len(call.arg) >= 1) =>
        /\ ret.res.nFrame = Len(call.arg)
        /\ p.nStartFrame = LatestRst(call.arg)

\* three frames, frame 1 asserts the reset, frame 2 does not, frame 0 holds
\* some other literal: the start frame is 1
C1_Witness ==
    /\ OblOk /\ Len(call.arg) = 3
    /\ RstFrames(call.arg) = {1}
    /\ Len(SegOf(call.arg, 0)) >= 1
    /\ p.nStartFrame = 1

\* C2: the returned set has an empty state segment and its input segment is
\* the resolved frame's input segment restricted, in order, to the literals
\* with a valid placement and an id below the primary-input count.
C2_ProgramIsFilteredFrame ==
    (OblOk /\ Len(call.arg) >= 1) =>
        LET kept == Kept(p, SegOf(call.arg, LatestRst(call.arg)))
        IN /\ ret.res.pProgram.nLits = 0
           /\ ret.res.pProgram.nTotal = Len(kept)
           /\ ret.res.pProgram.Lits = kept

\* the resolved frame holds a literal that is kept and one whose id is at or
\* beyond the primary-input count although its placement is valid
C2_Witness ==
    /\ OblOk /\ Len(call.arg) >= 1
    /\ LET seg == SegOf(call.arg, LatestRst(call.arg))
       IN /\ \E i \in DOMAIN seg : Qualifies(p, seg[i])
          /\ \E i \in DOMAIN seg :
                 /\ p.vPIs2Imem[(seg[i] \div 2) + 1] >= 0
                 /\ (seg[i] \div 2) >= p.nPis
    /\ ret.res.pProgram.nTotal = 1

\* C3: the reset check fails exactly when a kept reset literal is
\* complemented; with no frame asserting the reset and the reset unmapped,
\* the call returns frame 0's filtered literals.
C3_ResetCheckOnKeptOnly ==
    (IsObl /\ Len(call.arg) >= 1) =>
        LET seg == SegOf(call.arg, LatestRst(call.arg))
            keptComplRst == \E i \in DOMAIN seg :
                                seg[i] = 2 * RstVar + 1 /\ Qualifies(p, seg[i])
        IN /\ (ret.status = "assert") <=> keptComplRst
           /\ (RstFrames(call.arg) = {} /\ p.vPIs2Imem[RstVar + 1] < 0) =>
                  /\ ret.status = "ok"
                  /\ ret.res.pProgram.Lits = Kept(p, SegOf(call.arg, 0))

\* C8: when a call on a chain of n >= 1 frames returns, the start frame is
\* in 0..n-1 and the frame pointer names the node at that position, as it
\* did after every iteration of the traversal.
C8_IndexAndFrameAgree ==
    (OblOk /\ Len(call.arg) >= 1) =>
        /\ p.nStartFrame >= 0 /\ p.nStartFrame < Len(call.arg)
        /\ ret.res.pOblProgram = p.nStartFrame + 1
        /\ \A k \in 1..Len(ret.res.trace) :
               ret.res.trace[k][2] = ret.res.trace[k][1] + 1

\* a returned call whose start frame is not the chain head
C8_Witness == OblOk /\ Len(call.arg) >= 2 /\ p.nStartFrame >= 1

\* C10: every call that returns yields the program and the start frame of a
\* fresh manager on that chain alone, whatever earlier calls left behind,
\* and no call changes the chain or the manager's tables.
C10_NoCrossCallState ==
    [][(IsObl' /\ call' # call) =>
           /\ chain' = chain /\ call'.arg = chain
           /\ Tables(p') = Tables(p)
           /\ (ret'.status = "ok" =>
                  LET kept == Kept(p', SegOf(chain, LatestRst(chain)))
                  IN /\ ret'.res.pProgram.Lits = kept
                     /\ p'.vPis = kept
                     /\ p'.nStartFrame = LatestRst(chain))]_vars

\* a returned call that found literals and a start frame of an earlier call
\* in the manager, both different from its own
C10_Witness ==
    /\ OblOk
    /\ call.entry.vPis # << >> /\ call.entry.vPis # p.vPis
    /\ call.entry.nStartFrame # p.nStartFrame

\* C6: the concrete rendering of the returned program has its '1' exactly
\* where the concrete rendering of the resolved frame has them, and '0'
\* everywhere else.
C6_ExtractRenderRoundTrip ==
    (OblOk /\ Len(call.arg) >= 1) =>
        LET frame == call.arg[LatestRst(call.arg) + 1].pState
            a == Buffers(p, ret.res.pProgram).conc
            b == Buffers(p, frame).conc
        IN /\ {i \in DOMAIN a : a[i] = "1"} = {i \in DOMAIN b : b[i] = "1"}
           /\ \A i \in DOMAIN a : a[i] \in {"0", "1"}

-----------------------------------------------------------------------------
(* The renderer's claims, under SpecLog *)

IsLog == call.fn = "Pdr_ManLogUnsafeProgram" /\ call.arg.pFile # NULL
LogSeg == SegOf(<<[pState |-> call.arg.pProgram]>>, 0)
Placement(man, l) == man.vPIs2Imem[(l \div 2) + 1]
PolarityChar(l) == IF l % 2 = 0 THEN "1" ELSE "0"

\* the positions i of seg whose literal satisfies Test and is placed at pos
Writers(man, seg, pos, Test(_)) ==
    {i \in DOMAIN seg : Test(seg[i]) /\ Placement(man, seg[i]) = pos}

Last(S) == CHOOSE i \in S : \A j \in S : j <= i

\* C4: a literal that is unmapped or whose id is at or beyond the
\* primary-input count is ignored: nothing outside the buffers is written,
\* the call returns, and both buffers are what the other literals make them.
C4_SkipRule ==
    IsLog =>
        /\ ret.status = "ok"
        /\ ret.res.oob = {}
        /\ \A pos \in 0..(p.instLen * p.nInsts - 1) :
               LET W == Writers(p, LogSeg, pos, LAMBDA l : Qualifies(p, l))
               IN /\ ret.res.conc[pos + 1] =
                         IF W = {} THEN "0" ELSE PolarityChar(LogSeg[Last(W)])
                  /\ ret.res.gen[pos + 1] =
                         IF W = {} THEN "x" ELSE PolarityChar(LogSeg[Last(W)])

Layout ==
    (IsLog /\ ret.res.out # NothingPrinted) =>
        \A which \in {"concrete", "generalized"} :
            LET rows == ret.res.out[which]
                buf == IF which = "concrete" THEN ret.res.conc ELSE ret.res.gen
            IN /\ Len(rows) = p.nInsts
               /\ \A r \in 0..(p.nInsts - 1) :
                      /\ Len(rows[r + 1]) = p.instLen
                      /\ \A c \in 0..(p.instLen - 1) :
                             rows[r + 1][c + 1] =
                                 buf[(r * p.instLen + (p.instLen - 1 - c)) + 1]

\* instLen = 4, nInsts = 1 and a single true literal placed at index 1
Example ==
    /\ IsLog /\ ret.status = "ok"
    /\ p.instLen = 4 /\ p.nInsts = 1
    /\ Len(LogSeg) = 1 /\ LogSeg[1] % 2 = 0 /\ Placement(p, LogSeg[1]) = 1

\* C7, as amended: the layout above, each word printed from bit instLen-1
\* down to bit 0; in the example the concrete rendering is "0010".
C7_LayoutMsbFirst ==
    /\ Layout
    /\ Example => ret.res.out.concrete = << <<"0", "0", "1", "0">> >>

\* C7, as claimed: the same layout, and "0100" in the example.
C7_AsClaimed ==
    /\ Layout
    /\ Example => ret.res.out.concrete = << <<"0", "1", "0", "0">> >>

\* the example of the claim has been rendered
C7_Witness == Example /\ ret.res.out # NothingPrinted

-----------------------------------------------------------------------------
(* The queries' claims, under SpecQry *)

QryOk(fn) == call.fn = fn /\ ret.status = "ok"
InTable(v, i) == i + 1 \in DOMAIN v

\* C9: a query that returns, returns what the placement table says, the bit
\* offsets in 0..instLen-1; a query on an id out of range or on an unmapped
\* placement fails an assertion.
C9_QueriesConsistent ==
    /\ QryOk("Pdr_ManPiInstId") =>
           /\ InTable(p.vPIs2Imem, call.arg)
           /\ ret.res * p.instLen <= p.vPIs2Imem[call.arg + 1]
           /\ p.vPIs2Imem[call.arg + 1] < (ret.res + 1) * p.instLen
    /\ QryOk("Pdr_ManPiInstBit") =>
           /\ InTable(p.vPIs2Imem, call.arg)
           /\ ret.res >= 0 /\ ret.res < p.instLen
           /\ \E q \in 0..p.nInsts : q * p.instLen + ret.res = p.vPIs2Imem[call.arg + 1]
    /\ QryOk("Pdr_ManRegInstBit") =>
           /\ InTable(p.vReg2PI, call.arg)
           /\ InTable(p.vPIs2Imem, p.vReg2PI[call.arg + 1])
           /\ ret.res >= 0 /\ ret.res < p.instLen
           /\ \E q \in 0..p.nInsts :
                  q * p.instLen + ret.res = p.vPIs2Imem[p.vReg2PI[call.arg + 1] + 1]
    /\ (call.fn \in {"Pdr_ManPiInstId", "Pdr_ManPiInstBit"} /\
        (~InTable(p.vPIs2Imem, call.arg) \/ p.vPIs2Imem[call.arg + 1] < 0)) =>
           ret.status = "assert"
    /\ (call.fn = "Pdr_ManRegInstBit" /\
        (\/ ~InTable(p.vReg2PI, call.arg)
         \/ ~InTable(p.vPIs2Imem, p.vReg2PI[call.arg + 1])
         \/ p.vPIs2Imem[p.vReg2PI[call.arg + 1] + 1] < 0)) =>
           ret.status = "assert"
=============================================================================
